---- MODULE Spec2Model ----
(***************************************************************************)
(* A model of dipstick's application metrics facade (src/app_metrics.rs)   *)
(* and of the time! macro (src/macros.rs).                                 *)
(*                                                                         *)
(* The backend (a Sink and the scope function it hands out) is observed    *)
(* through two logs: metricLog holds every Sink::new_metric call, scopeLog *)
(* every Sink::new_scope call, and dispatched every command passed to a    *)
(* scope function.  A metric identity is the position of the new_metric    *)
(* call that returned it: the backend hands out a fresh token per call.    *)
(***************************************************************************)
EXTENDS Integers, Sequences, FiniteSets, TLC

(***************************************************************************)
(* Bounds of the model.                                                    *)
(***************************************************************************)
MaxFacades == 3
MaxInstruments == 2
MaxCmds == 2
MaxClock == 2
MaxHandles == 1
MaxFrames == 1

\* The sinks the application builds; metrics(sink) takes its sink by value,
\* so each is wrapped at most once.
Sinks == { "s1", "s2" }

\* What a timed operation may return.
OpResults == { "r1", "r2" }

(***************************************************************************)
(* Strings are sequences of characters.                                    *)
(***************************************************************************)
Prefixes == { <<>>, <<"a", ".">>, <<"b">> }
Names == { <<"n">>, <<"a", "n">> }

\* String::is_empty
is_empty(s) == Len(s) = 0

\* String::push_str: appends the characters of s to buf one by one.
RECURSIVE push_str(_, _)
push_str(buf, s) ==
    IF s = <<>> THEN buf ELSE push_str(Append(buf, Head(s)), Tail(s))

\* A plausible slip: a separator is put between the prefix and the name.
qualified_name_sep(prefix, name) ==
    IF is_empty(prefix) THEN name ELSE push_str(Append(prefix, "."), name)

\* AppMetrics::qualified_name
qualified_name(prefix, name) ==
    IF is_empty(prefix) THEN name ELSE push_str(prefix, name)

(***************************************************************************)
(* Numbers.  A magnitude is a sequence of 16-bit limbs, least significant  *)
(* first, without leading zero limbs, so that the 64-bit range is exact.   *)
(* A value handed to count / value / interval_us carries the numeric type  *)
(* it arrives in, its sign, the magnitude of its integral part and whether *)
(* it has a fractional part (floats only).                                 *)
(***************************************************************************)
LimbBase == 2 ^ 16
U64Limbs == 64 \div 16

\* The magnitude of a small natural number.
Mag(n) == IF n = 0 THEN <<>> ELSE <<n>>

U64Max == [i \in 1..U64Limbs |-> LimbBase - 1]
TwoPow64 == [i \in 1..(U64Limbs + 1) |-> IF i = U64Limbs + 1 THEN 1 ELSE 0]

Num(repr, neg, mag, frac) ==
    [repr |-> repr, neg |-> neg, mag |-> mag, frac |-> frac]

IsFloat(v) == v.repr \in {"f32", "f64"}

\* The values the recording calls are tried with.
InRange ==
    { Num("i32", FALSE, Mag(3), FALSE),
      Num("u8", FALSE, Mag(3), FALSE),
      Num("f64", FALSE, Mag(3), FALSE),
      Num("u64", FALSE, U64Max, FALSE) }
Negative ==
    { Num("i64", TRUE, Mag(1), FALSE),
      Num("f64", TRUE, Mag(1), FALSE) }
Fractional ==
    { Num("f64", FALSE, Mag(2), TRUE),
      Num("f64", TRUE, Mag(0), TRUE) }
TooBig ==
    { Num("u128", FALSE, TwoPow64, FALSE),
      Num("f64", FALSE, TwoPow64, FALSE) }
Values == InRange \cup Negative \cup Fractional \cup TooBig

None == [some |-> FALSE]
Some(m) == [some |-> TRUE, val |-> m]

\* Whether a magnitude is below 2^64.
FitsU64(mag) == Len(mag) <= U64Limbs

\* num::ToPrimitive::to_u64, of the num crate the module re-exports, as
\* num-traits 0.2 defines it.  An integer converts exactly when it is in
\* 0..2^64-1.  A float converts when it lies strictly between -1 and 2^64,
\* to its integral part: the cast truncates toward zero.
to_u64(v) ==
    IF ~IsFloat(v)
    THEN IF v.neg \/ ~FitsU64(v.mag) THEN None ELSE Some(v.mag)
    ELSE IF v.neg /\ v.mag # <<>> THEN None
    ELSE IF v.neg THEN Some(<<>>)
    ELSE IF FitsU64(v.mag) THEN Some(v.mag)
    ELSE None

(***************************************************************************)
(* Scope commands.                                                         *)
(***************************************************************************)
Write(scope, metric, value) ==
    [cmd |-> "Write", scope |-> scope, metric |-> metric, value |-> value]
Flush(scope) ==
    [cmd |-> "Flush", scope |-> scope, metric |-> 0, value |-> <<>>]

DefaultRate == 1

VARIABLES
    facades,      \* the AppMetrics values made so far: [prefix, sink, scope]
    origin,       \* per facade, the call that made it: [parent, prefix]
    scopeLog,     \* the Sink::new_scope calls: [sink, auto_flush]
    metricLog,    \* the Sink::new_metric calls: [sink, kind, name, rate]
    instruments,  \* the instruments made so far: [type, metric, scope]
    dispatched,   \* the commands passed to scope functions, in order
    now,          \* the monotonic clock, in microseconds
    handles,      \* the TimeHandles captured by start(): their instants
    lastStop,     \* per handle, the value its latest stop returned (-1: none)
    frames,       \* the time(op) and time! calls in progress
    last          \* the call made by the latest step, and what it returned

vars == << facades, origin, scopeLog, metricLog, instruments, dispatched, now,
           handles, lastStop, frames, last >>

NoName == <<>>
NoValue == Num("none", FALSE, <<>>, FALSE)

\* A value of type u64.
U64(n) == Num("u64", FALSE, Mag(n), FALSE)

\* The record of a call: which operation, on which facade or instrument,
\* with which arguments, how it ended ("ok" or "panic") and what it returned.
Call(op, facade, inst, name, value, handle, outcome, ret) ==
    [op |-> op, facade |-> facade, inst |-> inst, name |-> name,
     value |-> value, handle |-> handle, outcome |-> outcome, ret |-> ret]

Init ==
    /\ facades = <<>>
    /\ origin = <<>>
    /\ scopeLog = <<>>
    /\ metricLog = <<>>
    /\ instruments = <<>>
    /\ dispatched = <<>>
    /\ now = 0
    /\ handles = <<>>
    /\ lastStop = <<>>
    /\ frames = <<>>
    /\ last = Call("init", 0, 0, NoName, NoValue, 0, "ok", 0)

(***************************************************************************)
(* The backend, as the facade sees it.                                     *)
(***************************************************************************)
\* Sink::new_scope: the log after the call; the scope function returned is
\* named by the position of the call.
new_scope(sink, auto_flush) ==
    Append(scopeLog, [sink |-> sink, auto_flush |-> auto_flush])

\* Sink::new_metric: the log after the call; the identity returned is the
\* position of the call.
new_metric(sink, kind, name, rate) ==
    Append(metricLog, [sink |-> sink, kind |-> kind, name |-> name, rate |-> rate])

\* Calling a scope function with a command.
Dispatch(cmd) == Append(dispatched, cmd)

CanDispatch == Len(dispatched) < MaxCmds

(***************************************************************************)
(* The facade.                                                             *)
(***************************************************************************)
\* metrics(sink)
metrics(sink) ==
    /\ Len(facades) < MaxFacades
    /\ \A s \in 1..Len(scopeLog) : scopeLog[s].sink # sink
    /\ scopeLog' = new_scope(sink, TRUE)
    /\ facades' = Append(facades,
           [prefix |-> <<>>, sink |-> sink, scope |-> Len(scopeLog')])
    /\ origin' = Append(origin, [parent |-> 0, prefix |-> <<>>])
    /\ last' = Call("metrics", Len(facades'), 0, NoName, NoValue, 0, "ok", Len(facades'))
    /\ UNCHANGED << metricLog, instruments, dispatched, now, handles, lastStop, frames >>

\* A plausible slip: the new prefix is appended to the parent's.
fork_appending(self, prefix) ==
    [prefix |-> self.prefix \o prefix, sink |-> self.sink, scope |-> self.scope]

\* The AppMetrics value built by with_prefix.
fork(self, prefix) ==
    [prefix |-> prefix, sink |-> self.sink, scope |-> self.scope]

\* A plausible slip: the parent's prefix is set as well.
forked_in_place(f, prefix) ==
    Append([facades EXCEPT ![f].prefix = prefix], fork(facades[f], prefix))

\* The facades after facade f is forked: &self is left as it is.
forked(f, prefix) == Append(facades, fork(facades[f], prefix))

\* A plausible slip: the fork asks the sink for a scope of its own.
with_prefix_rescoping(f, prefix) ==
    /\ Len(facades) < MaxFacades
    /\ scopeLog' = new_scope(facades[f].sink, TRUE)
    /\ facades' = Append(facades,
           [prefix |-> prefix, sink |-> facades[f].sink, scope |-> Len(scopeLog')])
    /\ origin' = Append(origin, [parent |-> f, prefix |-> prefix])
    /\ last' = Call("with_prefix", f, 0, prefix, NoValue, 0, "ok", Len(facades'))
    /\ UNCHANGED << metricLog, instruments, dispatched, now, handles, lastStop, frames >>

\* AppMetrics::with_prefix
with_prefix(f, prefix) ==
    /\ Len(facades) < MaxFacades
    /\ facades' = forked(f, prefix)
    /\ origin' = Append(origin, [parent |-> f, prefix |-> prefix])
    /\ last' = Call("with_prefix", f, 0, prefix, NoValue, 0, "ok", Len(facades'))
    /\ UNCHANGED << scopeLog, metricLog, instruments, dispatched, now, handles,
                    lastStop, frames >>

\* What the four factory methods share: the name is qualified, the sink is
\* asked for an identity, and the instrument binds it to a clone of the
\* facade's scope function.
issue(op, f, kind, type, name) ==
    /\ Len(instruments) < MaxInstruments
    /\ metricLog' = new_metric(facades[f].sink, kind,
                               qualified_name(facades[f].prefix, name), DefaultRate)
    /\ instruments' = Append(instruments,
           [type |-> type, metric |-> Len(metricLog'), scope |-> facades[f].scope])
    /\ last' = Call(op, f, Len(instruments'), name, NoValue, 0, "ok", Len(instruments'))
    /\ UNCHANGED << facades, origin, scopeLog, dispatched, now, handles, lastStop, frames >>

\* AppMetrics::marker
marker(f, name) == issue("marker", f, "Marker", "Marker", name)

\* A plausible slip: the kind of the neighbouring method.
counter_as_gauge(f, name) == issue("counter", f, "Gauge", "Counter", name)

\* AppMetrics::counter
counter(f, name) == issue("counter", f, "Counter", "Counter", name)

\* AppMetrics::timer
timer(f, name) == issue("timer", f, "Timer", "Timer", name)

\* AppMetrics::gauge
gauge(f, name) == issue("gauge", f, "Gauge", "Gauge", name)

\* A plausible slip: the flush is written as a zero-valued write.
flush_scope_writing(f) ==
    /\ CanDispatch
    /\ dispatched' = Dispatch(Write(facades[f].scope, 0, Mag(0)))
    /\ last' = Call("flush_scope", f, 0, NoName, NoValue, 0, "ok", 0)
    /\ UNCHANGED << facades, origin, scopeLog, metricLog, instruments, now, handles,
                    lastStop, frames >>

\* AppMetrics::flush_scope
flush_scope(f) ==
    /\ CanDispatch
    /\ dispatched' = Dispatch(Flush(facades[f].scope))
    /\ last' = Call("flush_scope", f, 0, NoName, NoValue, 0, "ok", 0)
    /\ UNCHANGED << facades, origin, scopeLog, metricLog, instruments, now, handles,
                    lastStop, frames >>

(***************************************************************************)
(* The instruments.                                                        *)
(***************************************************************************)
\* self.scope.as_ref()(Scope::Write(&self.metric, value)): the commands
\* dispatched once instrument i has written a u64 value.
written(i, value) ==
    Dispatch(Write(instruments[i].scope, instruments[i].metric, value))

\* A plausible slip: the unit is left out and zero is written.
mark_zero(i) ==
    /\ instruments[i].type = "Marker"
    /\ CanDispatch
    /\ dispatched' = written(i, Mag(0))
    /\ last' = Call("mark", 0, i, NoName, NoValue, 0, "ok", 0)
    /\ UNCHANGED << facades, origin, scopeLog, metricLog, instruments, now, handles,
                    lastStop, frames >>

\* Marker::mark
mark(i) ==
    /\ instruments[i].type = "Marker"
    /\ CanDispatch
    /\ dispatched' = written(i, Mag(1))
    /\ last' = Call("mark", 0, i, NoName, NoValue, 0, "ok", 0)
    /\ UNCHANGED << facades, origin, scopeLog, metricLog, instruments, now, handles,
                    lastStop, frames >>

\* Option::unwrap on None: the call unwinds before the scope function is
\* reached.
Panic(op, i, v) ==
    /\ last' = Call(op, 0, i, NoName, v, 0, "panic", 0)
    /\ UNCHANGED << facades, origin, scopeLog, metricLog, instruments, dispatched, now,
                    handles, lastStop, frames >>

\* A plausible slip: unwrap_or(0) in place of unwrap().
write_value_or_zero(op, i, v, ret) ==
    /\ CanDispatch
    /\ dispatched' = written(i, IF to_u64(v).some THEN to_u64(v).val ELSE Mag(0))
    /\ last' = Call(op, 0, i, NoName, v, 0, "ok", ret)
    /\ UNCHANGED << facades, origin, scopeLog, metricLog, instruments, now,
                    handles, lastStop, frames >>

\* scope(Scope::Write(&self.metric, v.to_u64().unwrap())), and then the
\* value the call returns.
write_value(op, i, v, ret) ==
    IF to_u64(v).some
    THEN /\ CanDispatch
         /\ dispatched' = written(i, to_u64(v).val)
         /\ last' = Call(op, 0, i, NoName, v, 0, "ok", ret)
         /\ UNCHANGED << facades, origin, scopeLog, metricLog, instruments, now,
                         handles, lastStop, frames >>
    ELSE Panic(op, i, v)

\* The low 32 bits of a magnitude.
Low32(mag) == SubSeq(mag, 1, IF Len(mag) < 2 THEN Len(mag) ELSE 2)

\* A plausible slip: the value goes through a 32-bit conversion.
count_narrow(i, v) ==
    /\ instruments[i].type = "Counter"
    /\ IF to_u64(v).some
       THEN /\ CanDispatch
            /\ dispatched' = written(i, Low32(to_u64(v).val))
            /\ last' = Call("count", 0, i, NoName, v, 0, "ok", 0)
            /\ UNCHANGED << facades, origin, scopeLog, metricLog, instruments, now,
                            handles, lastStop, frames >>
       ELSE Panic("count", i, v)

\* Counter::count
count(i, v) ==
    /\ instruments[i].type = "Counter"
    /\ write_value("count", i, v, 0)

\* Gauge::value
value(i, v) ==
    /\ instruments[i].type = "Gauge"
    /\ write_value("value", i, v, 0)

\* Timer::interval_us
interval_us(i, v) ==
    /\ instruments[i].type = "Timer"
    /\ write_value("interval_us", i, v, v)

(***************************************************************************)
(* Time.                                                                   *)
(***************************************************************************)
\* The monotonic clock advances.
tick ==
    /\ now < MaxClock
    /\ now' = now + 1
    /\ last' = Call("tick", 0, 0, NoName, NoValue, 0, "ok", 0)
    /\ UNCHANGED << facades, origin, scopeLog, metricLog, instruments, dispatched, handles,
                    lastStop, frames >>

\* TimeHandle::now: the handle holds the instant of its capture.
TimeHandle_now == now

\* TimeHandle::elapsed_us: whole microseconds since the capture.
elapsed_us(start_time) == now - start_time

\* Timer::start
start(i) ==
    /\ instruments[i].type = "Timer"
    /\ Len(handles) < MaxHandles
    /\ handles' = Append(handles, TimeHandle_now)
    /\ lastStop' = Append(lastStop, -1)
    /\ last' = Call("start", 0, i, NoName, NoValue, Len(handles'), "ok", Len(handles'))
    /\ UNCHANGED << facades, origin, scopeLog, metricLog, instruments, dispatched, now, frames >>

\* A plausible slip: the interval is measured from the previous stop.
stop_since_previous(i, h) ==
    /\ instruments[i].type = "Timer"
    /\ CanDispatch
    /\ LET since == IF lastStop[h] < 0 THEN handles[h] ELSE handles[h] + lastStop[h]
           elapsed == elapsed_us(since)
       IN  /\ dispatched' = written(i, Mag(elapsed))
           /\ lastStop' = [lastStop EXCEPT ![h] = elapsed]
           /\ last' = Call("stop", 0, i, NoName, NoValue, h, "ok", elapsed)
    /\ UNCHANGED << facades, origin, scopeLog, metricLog, instruments, now, handles, frames >>

\* Timer::stop: interval_us(elapsed_us), whose result is returned.
stop(i, h) ==
    /\ instruments[i].type = "Timer"
    /\ CanDispatch
    /\ LET elapsed == elapsed_us(handles[h])
       IN  /\ to_u64(U64(elapsed)).some
           /\ dispatched' = written(i, to_u64(U64(elapsed)).val)
           /\ lastStop' = [lastStop EXCEPT ![h] = elapsed]
           /\ last' = Call("stop", 0, i, NoName, NoValue, h, "ok", elapsed)
    /\ UNCHANGED << facades, origin, scopeLog, metricLog, instruments, now, handles, frames >>

\* The sequence s without its k-th element.
Without(s, k) == [j \in 1..(Len(s) - 1) |-> IF j < k THEN s[j] ELSE s[j + 1]]

\* A plausible slip: stop is called before the operation has run.
time_begin_stopping(i, via) ==
    /\ instruments[i].type = "Timer"
    /\ Len(frames) < MaxFrames
    /\ CanDispatch
    /\ dispatched' = written(i, Mag(elapsed_us(TimeHandle_now)))
    /\ frames' = Append(frames,
           [timer |-> i, start_time |-> TimeHandle_now, via |-> via])
    /\ last' = Call("time_begin", 0, i, NoName, NoValue, 0, "ok", 0)
    /\ UNCHANGED << facades, origin, scopeLog, metricLog, instruments, now,
                    handles, lastStop >>

\* Timer::time and time!, up to the call of the operation: the start handle
\* is captured and the operation is entered.
time_begin(i, via) ==
    /\ instruments[i].type = "Timer"
    /\ Len(frames) < MaxFrames
    /\ frames' = Append(frames,
           [timer |-> i, start_time |-> TimeHandle_now, via |-> via])
    /\ last' = Call("time_begin", 0, i, NoName, NoValue, 0, "ok", 0)
    /\ UNCHANGED << facades, origin, scopeLog, metricLog, instruments, dispatched, now,
                    handles, lastStop >>

\* The timed operation does not return: it panics, or the body of time!
\* leaves the enclosing function.  The rest of the call is skipped.
op_unwind(k) ==
    /\ frames' = Without(frames, k)
    /\ last' = Call("op_unwind", 0, frames[k].timer, NoName, NoValue, 0, "panic", 0)
    /\ UNCHANGED << facades, origin, scopeLog, metricLog, instruments, dispatched, now,
                    handles, lastStop >>

\* Timer::time and time!, from the return of the operation on:
\* let value = operations(); self.stop(start_time); value, where result is
\* what the operation returned.
time_end(k, result) ==
    /\ CanDispatch
    /\ LET elapsed == elapsed_us(frames[k].start_time)
       IN  /\ to_u64(U64(elapsed)).some
           /\ dispatched' = written(frames[k].timer, to_u64(U64(elapsed)).val)
    /\ frames' = Without(frames, k)
    /\ last' = Call(frames[k].via, 0, frames[k].timer, NoName, NoValue, 0, "ok", result)
    /\ UNCHANGED << facades, origin, scopeLog, metricLog, instruments, now, handles, lastStop >>

(***************************************************************************)
(* Specifications.  Each lets the application make the calls of one area   *)
(* with a wide choice of arguments, and the other calls with a narrow one. *)
(***************************************************************************)
Facades == 1..Len(facades)
Instruments == 1..Len(instruments)
Handles == 1..Len(handles)
Frames == 1..Len(frames)

OnePrefix == { <<"a", ".">> }
OneName == { <<"n">> }
OneSink == { "s1" }
OneValue == { Num("i32", FALSE, Mag(3), FALSE) }

\* Facades, forks, the four kinds of instrument and their recording calls.
Next ==
    \/ \E s \in OneSink : metrics(s)
    \/ \E f \in Facades, p \in OnePrefix : with_prefix(f, p)
    \/ \E f \in Facades, n \in OneName : marker(f, n)
    \/ \E f \in Facades, n \in OneName : counter(f, n)
    \/ \E f \in Facades, n \in OneName : timer(f, n)
    \/ \E f \in Facades, n \in OneName : gauge(f, n)
    \/ \E f \in Facades : flush_scope(f)
    \/ \E i \in Instruments : mark(i)
    \/ \E i \in Instruments, v \in OneValue : count(i, v)
    \/ \E i \in Instruments, v \in OneValue : value(i, v)
    \/ \E i \in Instruments, v \in OneValue : interval_us(i, v)

Spec == Init /\ [][Next]_vars

\* Naming: every prefix and name, forks of forks.
NextNaming ==
    \/ \E s \in OneSink : metrics(s)
    \/ \E f \in Facades, p \in Prefixes : with_prefix(f, p)
    \/ \E f \in Facades, n \in Names : marker(f, n)
    \/ \E i \in Instruments : mark(i)

SpecNaming == Init /\ [][NextNaming]_vars

\* Values: every numeric representation.
NextValues ==
    \/ \E s \in OneSink : metrics(s)
    \/ \E f \in Facades, n \in OneName : marker(f, n)
    \/ \E f \in Facades, n \in OneName : counter(f, n)
    \/ \E f \in Facades, n \in OneName : timer(f, n)
    \/ \E f \in Facades, n \in OneName : gauge(f, n)
    \/ \E i \in Instruments : mark(i)
    \/ \E i \in Instruments, v \in Values : count(i, v)
    \/ \E i \in Instruments, v \in Values : value(i, v)
    \/ \E i \in Instruments, v \in Values : interval_us(i, v)

SpecValues == Init /\ [][NextValues]_vars

\* Handles: the clock, start and stop.
NextStop ==
    \/ \E s \in OneSink : metrics(s)
    \/ \E f \in Facades, n \in OneName : marker(f, n)
    \/ \E f \in Facades, n \in OneName : timer(f, n)
    \/ tick
    \/ \E i \in Instruments : mark(i)
    \/ \E i \in Instruments : start(i)
    \/ \E i \in Instruments, h \in Handles : stop(i, h)

SpecStop == Init /\ [][NextStop]_vars

\* Timed operations: the clock, time(op) and time!, and what the operation
\* itself records.
NextTime ==
    \/ \E s \in OneSink : metrics(s)
    \/ \E f \in Facades, n \in OneName : marker(f, n)
    \/ \E f \in Facades, n \in OneName : timer(f, n)
    \/ tick
    \/ \E i \in Instruments : mark(i)
    \/ \E i \in Instruments, via \in {"time", "time!"} : time_begin(i, via)
    \/ \E k \in Frames : op_unwind(k)
    \/ \E k \in Frames, r \in OpResults : time_end(k, r)

SpecTime == Init /\ [][NextTime]_vars

\* Lineages: every sink, each wrapped into a root facade of its own, with
\* forks, counters and their calls.
NextLineage ==
    \/ \E s \in Sinks : metrics(s)
    \/ \E f \in Facades, p \in OnePrefix : with_prefix(f, p)
    \/ \E f \in Facades, n \in OneName : counter(f, n)
    \/ \E f \in Facades : flush_scope(f)
    \/ \E i \in Instruments, v \in OneValue : count(i, v)

SpecLineage == Init /\ [][NextLineage]_vars

(***************************************************************************)
(* Properties.  What a call does is a property of the step that makes it:  *)
(* last' names the call, the unprimed variables are the state it was made  *)
(* in and the primed ones the state it left.                               *)
(***************************************************************************)
FactoryOps == { "marker", "counter", "gauge", "timer" }
RecordOps == { "count", "value", "interval_us" }

\* The kind each factory method is to ask for.
KindOf(op) ==
    CASE op = "marker" -> "Marker"
      [] op = "counter" -> "Counter"
      [] op = "gauge" -> "Gauge"
      [] op = "timer" -> "Timer"

Latest(log) == log[Len(log)]

\* C1: a factory call with name N on a facade with prefix P registers the
\* metric under N when P is empty and under P ++ N, with nothing in between,
\* when P is not.
C1_QualifiedName ==
    [][last'.op \in FactoryOps =>
          LET P == facades[last'.facade].prefix
              N == last'.name
              got == Latest(metricLog').name
          IN  /\ Len(metricLog') = Len(metricLog) + 1
              /\ P = <<>> => got = N
              /\ P # <<>> => got = P \o N]_vars

\* C1 happens: after a registration under a bare name through the root, a
\* name is registered through a facade with a prefix.
C1_Witness ==
    /\ last.op \in FactoryOps
    /\ facades[last.facade].prefix = <<"a", ".">>
    /\ last.name = <<"a", "n">>
    /\ Len(metricLog) = 2
    /\ metricLog[1].name = <<"n">>
    /\ metricLog[2].name = <<"a", ".", "a", "n">>

\* C2: no step changes an instrument issued earlier, the call that
\* registered it, or a facade made earlier; and a recording call of
\* instrument i writes with the identity the i-th registration returned, to
\* the scope function of the sink it was registered with.
C2_IssuedUnaffected ==
    [][/\ \A i \in 1..Len(instruments) :
              instruments'[i] = instruments[i] /\ metricLog'[i] = metricLog[i]
       /\ \A f \in 1..Len(facades) : facades'[f] = facades[f]
       /\ (last'.op \in RecordOps \cup {"mark"} /\ last'.outcome = "ok") =>
              LET c == Latest(dispatched')
              IN  /\ Len(dispatched') = Len(dispatched) + 1
                  /\ c.cmd = "Write"
                  /\ c.metric = last'.inst
                  /\ scopeLog[c.scope].sink = metricLog[last'.inst].sink]_vars

\* C2 happens: the first instrument, made through the root, records again
\* once a fork exists and a second instrument has been made through it.
C2_Witness ==
    /\ last.op = "mark"
    /\ last.inst = 1
    /\ Len(instruments) = 2
    /\ metricLog[1].name = <<"n">>
    /\ metricLog[2].name = <<"a", ".", "n">>
    /\ Len(dispatched) = 2
    /\ dispatched[1] = dispatched[2]
    /\ dispatched[2].metric = 1
    /\ facades[1].prefix = <<>>

\* C3: with_prefix(Q) makes a facade whose prefix is Q, whatever the prefix
\* of the facade it is called on, and a name N registered through a fork
\* made by with_prefix(Q) is Q ++ N; this holds for forks of forks.
C3_PrefixReplaced ==
    [][/\ last'.op = "with_prefix" =>
              /\ Len(facades') = Len(facades) + 1
              /\ Latest(facades').prefix = last'.name
       /\ (last'.op \in FactoryOps /\ origin[last'.facade].parent # 0) =>
              Latest(metricLog').name = origin[last'.facade].prefix \o last'.name]_vars

\* C3 happens: a name is registered through a fork, made with a prefix Q,
\* of a fork that has another, non-empty prefix P.
C3_Witness ==
    /\ last.op \in FactoryOps
    /\ LET f == last.facade
           p == origin[f].parent
       IN  /\ p # 0
           /\ origin[p].parent # 0
           /\ facades[p].prefix = <<"a", ".">>
           /\ origin[f].prefix = <<"b">>
           /\ Latest(metricLog).name = <<"b">> \o last.name

\* C4: a factory call asks the sink for one identity, with the kind of the
\* method, the qualified name and the rate 1.0; the instrument it returns
\* holds the identity that call returned, and every Write the instrument
\* dispatches later carries it.
C4_FactoryRegisters ==
    [][/\ last'.op \in FactoryOps =>
              LET f == last'.facade
                  P == facades[f].prefix
              IN  /\ metricLog' = Append(metricLog,
                         [sink |-> facades[f].sink, kind |-> KindOf(last'.op),
                          name |-> IF P = <<>> THEN last'.name ELSE P \o last'.name,
                          rate |-> 1])
                  /\ Len(instruments') = Len(instruments) + 1
                  /\ last'.ret = Len(instruments')
                  /\ Latest(instruments').metric = Len(metricLog')
                  /\ Latest(instruments').type = KindOf(last'.op)
       /\ last'.op \notin FactoryOps => metricLog' = metricLog
       /\ (last'.op \in RecordOps \cup {"mark"} /\ last'.outcome = "ok") =>
              /\ Latest(dispatched').cmd = "Write"
              /\ Latest(dispatched').metric = instruments[last'.inst].metric
              /\ metricLog[instruments[last'.inst].metric].kind
                     = instruments[last'.inst].type]_vars

\* C4 happens: a counter is made through a facade with a prefix and counts.
C4_Witness ==
    /\ last.op = "count"
    /\ last.outcome = "ok"
    /\ metricLog[last.inst] =
           [sink |-> "s1", kind |-> "Counter", name |-> <<"a", ".", "n">>, rate |-> 1]
    /\ Latest(dispatched) = Write(1, last.inst, <<3>>)

\* C5: a call of mark() dispatches one command, Write(the marker's
\* identity, 1), whatever was dispatched before.
C5_MarkWritesOne ==
    [][last'.op = "mark" =>
          /\ instruments[last'.inst].type = "Marker"
          /\ dispatched' = Append(dispatched,
                 [cmd |-> "Write", scope |-> instruments[last'.inst].scope,
                  metric |-> instruments[last'.inst].metric, value |-> <<1>>])]_vars

\* C5 happens: a marker is marked after another instrument has recorded.
C5_Witness ==
    /\ last.op = "mark"
    /\ Len(dispatched) = 2
    /\ dispatched[1].metric # dispatched[2].metric
    /\ dispatched[1].value = <<3>>
    /\ dispatched[2].value = <<1>>

\* C7: a call of flush_scope() dispatches one command, Flush, to the scope
\* function of the facade, and asks the sink for nothing.
C7_FlushOnly ==
    [][last'.op = "flush_scope" =>
          /\ dispatched' = Append(dispatched,
                 [cmd |-> "Flush", scope |-> facades[last'.facade].scope,
                  metric |-> 0, value |-> <<>>])
          /\ metricLog' = metricLog
          /\ scopeLog' = scopeLog]_vars

\* C7 happens: a fork is flushed after an instrument has recorded.
C7_Witness ==
    /\ last.op = "flush_scope"
    /\ origin[last.facade].parent # 0
    /\ Len(dispatched) = 2
    /\ dispatched[1].cmd = "Write"
    /\ dispatched[2].cmd = "Flush"

\* Whether a value is an integral value in 0..2^64-1.
InU64(v) == ~v.neg /\ ~v.frac /\ Len(v.mag) <= 4

\* Whether a value is negative, has a fractional part or is above 2^64-1.
Unrepresentable(v) == v.neg \/ v.frac \/ Len(v.mag) > 4

\* Whether the integral part of a value is at most -1 or at least 2^64.
Rejected(v) == (v.neg /\ v.mag # <<>>) \/ Len(v.mag) > 4

\* The Write an instrument is to dispatch for a magnitude.
WriteOf(i, mag) ==
    [cmd |-> "Write", scope |-> instruments[i].scope,
     metric |-> instruments[i].metric, value |-> mag]

\* C6: count, value and interval_us, called with an integral value in
\* 0..2^64-1 of any numeric type, dispatch one Write(identity, that value).
C6_ValuePreserved ==
    [][(last'.op \in RecordOps /\ InU64(last'.value)) =>
          /\ last'.outcome = "ok"
          /\ dispatched' = Append(dispatched, WriteOf(last'.inst, last'.value.mag))]_vars

\* C6 happens: after 2^64-1 has been written, the float 3.0 is counted and
\* 3 is written.
C6_Witness ==
    /\ last.op = "count"
    /\ last.value = Num("f64", FALSE, <<3>>, FALSE)
    /\ Len(dispatched) = 2
    /\ dispatched[1].value = <<65535, 65535, 65535, 65535>>
    /\ dispatched[2] = WriteOf(last.inst, <<3>>)

\* C8, as claimed: count, value and interval_us, called with a value that is
\* negative, has a fractional part or is above 2^64-1, panic, dispatch
\* nothing and change nothing.
C8_AbortsOnUnrepresentable ==
    [][(last'.op \in RecordOps /\ Unrepresentable(last'.value)) =>
          /\ last'.outcome = "panic"
          /\ UNCHANGED << facades, scopeLog, metricLog, instruments, dispatched >>]_vars

\* C8, amended: the call panics, dispatches nothing and changes nothing when
\* the integral part of the value is at most -1 or at least 2^64; a value
\* between these bounds that has a fractional part is truncated toward zero
\* and written.
C8_AbortsOnRejected ==
    [][last'.op \in RecordOps =>
          /\ Rejected(last'.value) =>
                 /\ last'.outcome = "panic"
                 /\ UNCHANGED << facades, scopeLog, metricLog, instruments, dispatched,
                                 now, handles, frames >>
          /\ (~Rejected(last'.value) /\ last'.value.frac) =>
                 /\ last'.outcome = "ok"
                 /\ dispatched' = Append(dispatched,
                        WriteOf(last'.inst, IF last'.value.neg THEN <<>>
                                            ELSE last'.value.mag))]_vars

\* C8 happens: a call with -1 panics after another call has written.
C8_Witness ==
    /\ last.op \in RecordOps
    /\ last.outcome = "panic"
    /\ last.value = Num("i64", TRUE, <<1>>, FALSE)
    /\ Len(dispatched) = 1
    /\ Len(instruments) = 2

\* C9: time(op) and time! dispatch nothing when they capture the start
\* handle and enter the operation, and nothing when the operation does not
\* return; when it returns they dispatch one Write(identity, time since the
\* capture), after everything dispatched until then, and return what the
\* operation returned.
C9_TimedAfterOperation ==
    [][/\ last'.op = "time_begin" =>
              /\ dispatched' = dispatched
              /\ Len(frames') = Len(frames) + 1
              /\ Latest(frames').timer = last'.inst
              /\ Latest(frames').start_time = now
       /\ last'.op = "op_unwind" =>
              /\ dispatched' = dispatched
              /\ Len(frames') = Len(frames) - 1
       /\ last'.op \in {"time", "time!"} =>
              /\ last'.ret \in OpResults
              /\ \E k \in 1..Len(frames) :
                     /\ frames' = Without(frames, k)
                     /\ frames[k].via = last'.op
                     /\ frames[k].timer = last'.inst
                     /\ dispatched' = Append(dispatched,
                            WriteOf(last'.inst, IF now = frames[k].start_time THEN <<>>
                                                ELSE <<now - frames[k].start_time>>))]_vars

\* C9 happens: a timed operation that took two microseconds returns after a
\* marker has been marked.
C9_Witness ==
    /\ last.op = "time!"
    /\ last.ret = "r2"
    /\ frames = <<>>
    /\ Len(dispatched) = 2
    /\ dispatched[1].value = <<1>>
    /\ dispatched[1].metric # last.inst
    /\ dispatched[2] = WriteOf(last.inst, <<2>>)

\* C10: stop(h) dispatches one Write(identity, e) and returns e, the time
\* since h was captured; e is at least 0 and at least what the previous
\* stop of h returned.
C10_StopElapsed ==
    [][last'.op = "stop" =>
          LET h == last'.handle
              e == last'.ret
          IN  /\ e = now - handles[h]
              /\ e >= 0
              /\ e >= lastStop[h]
              /\ handles' = handles
              /\ dispatched' = Append(dispatched,
                     WriteOf(last'.inst, IF e = 0 THEN <<>> ELSE <<e>>))]_vars

\* C10 happens: a handle is stopped one microsecond after its capture and
\* again one microsecond later.
C10_Witness ==
    /\ last.op = "stop"
    /\ last.ret = 2
    /\ Len(dispatched) = 2
    /\ dispatched[1].value = <<1>>
    /\ dispatched[2].value = <<2>>

\* The facade metrics(sink) returned, from which facade f descends.
RECURSIVE RootOf(_)
RootOf(f) == IF origin[f].parent = 0 THEN f ELSE RootOf(origin[f].parent)

\* The root facade that wraps a sink.
RootOfSink(sink) ==
    CHOOSE r \in 1..Len(facades) : origin[r].parent = 0 /\ facades[r].sink = sink

\* C11: metrics(sink) calls new_scope of its sink once, with auto_flush
\* true, and returns a facade with an empty prefix that holds the scope
\* function of that call; no other call calls new_scope; a fork and an
\* instrument hold the sink and the scope function of the root of their
\* lineage; every command a facade or an instrument dispatches goes to the
\* scope function of the root of its lineage; and only the factory methods
\* call new_metric.
C11_OneScope ==
    [][/\ last'.op = "metrics" =>
              /\ Len(facades') = Len(facades) + 1
              /\ Latest(facades').prefix = <<>>
              /\ scopeLog' = Append(scopeLog,
                     [sink |-> Latest(facades').sink, auto_flush |-> TRUE])
              /\ Latest(facades').scope = Len(scopeLog')
              /\ \A s \in 1..Len(scopeLog) : scopeLog[s].sink # Latest(facades').sink
              /\ dispatched' = dispatched
       /\ last'.op # "metrics" => scopeLog' = scopeLog
       /\ last'.op = "with_prefix" =>
              /\ Latest(facades').sink = facades[RootOf(last'.facade)].sink
              /\ Latest(facades').scope = facades[RootOf(last'.facade)].scope
              /\ dispatched' = dispatched
       /\ last'.op \in FactoryOps =>
              /\ Latest(metricLog').sink = facades[RootOf(last'.facade)].sink
              /\ Latest(instruments').scope = facades[RootOf(last'.facade)].scope
              /\ dispatched' = dispatched
       /\ last'.op = "flush_scope" =>
              /\ dispatched' = Append(dispatched,
                     Flush(facades[RootOf(last'.facade)].scope))
              /\ scopeLog[facades[RootOf(last'.facade)].scope].auto_flush
       /\ (last'.op \in RecordOps \cup {"mark"} /\ last'.outcome = "ok") =>
              LET sink == metricLog[instruments[last'.inst].metric].sink
                  c == Latest(dispatched')
              IN  /\ Len(dispatched') = Len(dispatched) + 1
                  /\ SubSeq(dispatched', 1, Len(dispatched)) = dispatched
                  /\ c.scope = facades[RootOfSink(sink)].scope
                  /\ scopeLog[c.scope] = [sink |-> sink, auto_flush |-> TRUE]
       /\ last'.op \in RecordOps \cup {"mark"} => metricLog' = metricLog]_vars

\* C11 happens: two sinks are wrapped; a counter made through a fork of the
\* second root counts after the first root has been flushed, and the two
\* commands go to the two scope functions.
C11_Witness ==
    /\ last.op = "count"
    /\ last.outcome = "ok"
    /\ Len(scopeLog) = 2
    /\ scopeLog[1].sink # scopeLog[2].sink
    /\ Len(facades) = 3
    /\ origin[3].parent = 2
    /\ instruments[last.inst].scope = facades[3].scope
    /\ Len(dispatched) = 2
    /\ dispatched[1] = Flush(1)
    /\ dispatched[2] = Write(2, instruments[last.inst].metric, <<3>>)

====
